---- MODULE Spec2Model ----
(***************************************************************************)
(* A model of sse_utils.c: the aligned allocator sse_utils_malloc, the    *)
(* four elementwise kernels sse_utils_vadds / vaddd / vmuls / vmuld and   *)
(* the two reduction kernels sse_utils_sums / sumd.                       *)
(*                                                                         *)
(* A kernel call is a little sequential program over caller-owned         *)
(* buffers.  Every chunk load, lane-wise operation, chunk store and       *)
(* scalar element operation is one step, so that two calls running on two *)
(* threads interleave at the grain of single memory transfers.            *)
(***************************************************************************)
EXTENDS Integers, Sequences, FiniteSets, TLC

(***************************************************************************)
(* Bounds of the model.                                                    *)
(***************************************************************************)
\* Largest array length of a single call explored with full input variety.
MaxLen == 17
\* Largest array length of each of two concurrent calls.
MaxLenConc == 4
\* Cells that follow the first Max(len, 0) cells of every buffer, so that a
\* transfer beyond the array is observable.
Guard == 8
\* How many values of len are explored at each end of the range of int and
\* on each side of 0.
NearEdge == 16
\* A call with len near INT_MAX is taken up in its first loop, at the last
\* chunk boundary that lies at least Lead elements before len.
Lead == 24
\* The allocator's heap: HeapBlocks blocks of ALIGN bytes each.
HeapBlocks == 4

(***************************************************************************)
(* Program constants.                                                      *)
(***************************************************************************)
\* posix_memalign(&p, 128, bytes)
ALIGN == 128
\* NULL
NULL == 0
\* Significand width of a single-precision float.
MantBitsS == 24
\* Width of an int.
IntBits == 32

RECURSIVE Pow2(_)
Pow2(n) == IF n <= 0 THEN 1 ELSE 2 * Pow2(n - 1)

Abs(x) == IF x < 0 THEN 0 - x ELSE x
Max2(x, y) == IF x < y THEN y ELSE x

(***************************************************************************)
(* The C type int.  INT_MAX + 1 is not a number the model can form, so    *)
(* every sum is tested before it is formed.                                *)
(***************************************************************************)
INT_MAX == (Pow2(IntBits - 2) - 1) + Pow2(IntBits - 2)
INT_MIN == (0 - INT_MAX) - 1

\* Whether x + y lies outside the range of int.
AddOverflows(x, y) == IF y >= 0 THEN x > INT_MAX - y ELSE x < INT_MIN - y

\* x + y modulo 2^IntBits, for a sum that overflows.
WrapAdd(x, y) ==
    IF y >= 0 THEN (x + INT_MIN) + (y + INT_MIN) ELSE (x - INT_MIN) + (y - INT_MIN)

\* The content of a cell outside every buffer, and of a register or local
\* that was never assigned: an indeterminate value.
Undef == 0 - Pow2(30)

\* The outcomes of the int addition x + y.  A signed overflow is undefined
\* behaviour: the build may wrap the value around and go on (goes), or do
\* anything else (the call's behaviour is undefined from there).
IntAdd(x, y) ==
    IF AddOverflows(x, y)
    THEN {[val |-> WrapAdd(x, y), goes |-> TRUE], [val |-> Undef, goes |-> FALSE]}
    ELSE {[val |-> x + y, goes |-> TRUE]}

\* Whether the addition with these outcomes overflowed.
Overflowed(outcomes) == \E r \in outcomes : ~r.goes

\* Where a call goes on after a step: to the next statement, or, after
\* undefined behaviour that the build did not carry on from, nowhere the
\* source determines ("undefined" stands for every behaviour: a crash,
\* a return, accesses anywhere).
GoOn(ok, next) == IF ok THEN next ELSE "undefined"

(***************************************************************************)
(* Floating point.  The values of the model are integers.  A double       *)
(* holds every integer the model can form exactly; a float holds 24       *)
(* significant bits and rounds to nearest, ties to even.                   *)
(***************************************************************************)
RECURSIVE UlpOf(_, _, _)
UlpOf(ax, bits, q) == IF ax \div q < Pow2(bits) THEN q ELSE UlpOf(ax, bits, 2 * q)

RoundMag(ax, bits) ==
    LET q    == UlpOf(ax, bits, 1)
        r    == ax % q
        base == ax - r
    IN  IF 2 * r < q THEN base
        ELSE IF 2 * r > q THEN base + q
        ELSE IF (base \div q) % 2 = 0 THEN base ELSE base + q

FRound(prec, x) ==
    IF prec = "d" THEN x
    ELSE IF x < 0 THEN 0 - RoundMag(0 - x, MantBitsS) ELSE RoundMag(x, MantBitsS)

\* x + y in precision prec; in precision "sym" the sum is kept as the term
\* <<"add", x, y>>, which records the order of the additions.
Plus(prec, x, y) ==
    IF prec = "sym" THEN <<"add", x, y>>
    ELSE IF x = Undef \/ y = Undef THEN Undef
    ELSE FRound(prec, x + y)

Times(prec, x, y) ==
    IF x = Undef \/ y = Undef THEN Undef ELSE FRound(prec, x * y)

Arith(op, prec, x, y) == IF op = "add" THEN Plus(prec, x, y) ELSE Times(prec, x, y)

\* The terms of precision "sym".
ZeroTerm == <<"zero">>
ElemTerm(k) == <<"elem", k>>

(***************************************************************************)
(* The six kernels and what distinguishes them.                            *)
(***************************************************************************)
Binary == {"vadds", "vaddd", "vmuls", "vmuld"}
Sums == {"sums", "sumd"}
Kernels == Binary \cup Sums

\* "s": float (32-bit), "d": double (64-bit).
Prec(k) == IF k \in {"vadds", "vmuls", "sums"} THEN "s" ELSE "d"

\* _mm256_add_ps / _mm256_add_pd / _mm256_mul_ps / _mm256_mul_pd
OpOf(k) == IF k \in {"vmuls", "vmuld"} THEN "mul" ELSE "add"

\* Lanes of a ymm register (__m256: 8 floats, __m256d: 4 doubles).
WWide(k) == IF Prec(k) = "s" THEN 8 ELSE 4

\* Mutant: the xmm register taken to hold two lanes in either precision.
WNarrowTwo(k) == 2

\* Lanes of an xmm register (__m128: 4 floats, __m128d: 2 doubles).
WNarrow(k) == IF Prec(k) = "s" THEN 4 ELSE 2

(***************************************************************************)
(* Memory: the caller's buffers, each a row of cells indexed from 0.      *)
(***************************************************************************)
Threads == {1, 2}
OutBuf(t) == IF t = 1 THEN "C1" ELSE "C2"
Bufs == {"A", "B", "C1", "C2"}
\* The pointer argument a sum kernel does not have.
NoBuf == "none"

\* Whether cell k lies in the buffer.  An access outside the buffer is
\* undefined behaviour: the kernels' steps test for it and, outside, leave
\* the call in "undefined" in place of loading or storing.
InBuf(m, buf, k) == buf \in DOMAIN m /\ k \in DOMAIN m[buf]

\* buf[k] as an rvalue, for a cell in the buffer.
LoadCell(m, buf, k) == m[buf][k]

\* buf[k] = v, for a cell in the buffer.
StoreCell(m, buf, k, v) == [m EXCEPT ![buf][k] = v]

\* Whether the w cells from index i all lie in the buffer.
InChunk(m, buf, i, w) ==
    \A j \in 0..(w - 1) : ~AddOverflows(i, j) /\ InBuf(m, buf, i + j)

\* _mm256_loadu_ps(&a[i]) and its kin: w consecutive cells from index i.
LoadChunk(m, buf, i, w) == [j \in 1..w |-> LoadCell(m, buf, i + (j - 1))]

\* _mm256_storeu_ps(&c[i], reg) and its kin.
StoreChunk(m, buf, i, reg) ==
    [m EXCEPT ![buf] =
        [k \in DOMAIN m[buf] |->
            IF k >= i /\ k - i < Len(reg) THEN reg[(k - i) + 1] ELSE m[buf][k]]]

\* The cells a transfer of w elements at index i touches.
Cells(buf, i, w) == {<<buf, i + j>> : j \in {d \in 0..(w - 1) : ~AddOverflows(i, d)}}

\* Lane j of a register; a lane the register does not have holds nothing.
Lane(x, j) == IF j \in DOMAIN x THEN x[j] ELSE Undef

\* Mutant: the scalar form of the instruction (_mm_add_ss), which takes the
\* second operand's lowest lane only.
LaneOpFirst(op, prec, x, y) == [j \in DOMAIN x |-> Arith(op, prec, x[j], Lane(y, 1))]

\* _mm256_add_ps(x, y) and its kin: the operation in every lane.
LaneOp(op, prec, x, y) == [j \in DOMAIN x |-> Arith(op, prec, x[j], Lane(y, j))]

\* Mutant: the pair sums of x and of y interleaved.
Hadd_ps_interleaved(prec, x, y) ==
    <<Plus(prec, Lane(x, 1), Lane(x, 2)), Plus(prec, Lane(y, 1), Lane(y, 2)),
      Plus(prec, Lane(x, 3), Lane(x, 4)), Plus(prec, Lane(y, 3), Lane(y, 4))>>

\* Mutant: the lanes paired at distance two instead of adjacent.
Hadd_ps_strided(prec, x, y) ==
    <<Plus(prec, Lane(x, 1), Lane(x, 3)), Plus(prec, Lane(x, 2), Lane(x, 4)),
      Plus(prec, Lane(y, 1), Lane(y, 3)), Plus(prec, Lane(y, 2), Lane(y, 4))>>

\* _mm_hadd_ps(x, y): sums of the adjacent pairs of x, then of y.
Hadd_ps(prec, x, y) ==
    <<Plus(prec, Lane(x, 1), Lane(x, 2)), Plus(prec, Lane(x, 3), Lane(x, 4)),
      Plus(prec, Lane(y, 1), Lane(y, 2)), Plus(prec, Lane(y, 3), Lane(y, 4))>>

\* _mm_hadd_pd(x, y)
Hadd_pd(prec, x, y) ==
    <<Plus(prec, Lane(x, 1), Lane(x, 2)), Plus(prec, Lane(y, 1), Lane(y, 2))>>

Hadd(k, prec, x, y) == IF Prec(k) = "s" THEN Hadd_ps(prec, x, y) ELSE Hadd_pd(prec, x, y)

\* _mm_setzero_ps() / _mm_setzero_pd()
SetZero(k, prec) == [j \in 1..WNarrow(k) |-> IF prec = "sym" THEN ZeroTerm ELSE 0]

\* Mutant: c[i] = a[i]; c[i] op= b[i];
ScalarStoreTwoStep(m, op, prec, cb, ab, bb, i) ==
    LET m1 == StoreCell(m, cb, i, LoadCell(m, ab, i))
    IN  StoreCell(m1, cb, i, Arith(op, prec, LoadCell(m1, cb, i), LoadCell(m1, bb, i)))

\* c[i] = a[i] op b[i]; of the scalar tier: the memory after the statement.
ScalarStore(m, op, prec, cb, ab, bb, i) ==
    StoreCell(m, cb, i, Arith(op, prec, LoadCell(m, ab, i), LoadCell(m, bb, i)))

(***************************************************************************)
(* The loop bounds and the loop conditions.                                *)
(***************************************************************************)
\* Mutant: the bound not lowered by the chunk width.
WideBoundLen(k, len) == IntAdd(len, 0)

\* vlen = len - 8;   (len - 4 in the double kernels): the outcomes.
WideBound(k, len) == IntAdd(len, 0 - WWide(k))
\* vlen = len - 4;   (len - 2 in the double kernels): the outcomes.
NarrowBound(k, len) == IntAdd(len, 0 - WNarrow(k))
\* for (i = 0; i <= vlen; i += 8)
WideCond(i, vlen) == i <= vlen
\* Mutant: one chunk too many.
NarrowCondOffByOne(i, vlen) == i - 1 <= vlen

\* for (; i <= vlen; i += 4)
NarrowCond(i, vlen) == i <= vlen
\* Mutant: for (; i != len; i++)
ScalarCondNe(i, len) == i /= len

\* for (; i < len; i++)
ScalarCond(i, len) == i < len

(***************************************************************************)
(* State.                                                                  *)
(***************************************************************************)
VARIABLES
    mem,    \* the buffers
    mem0,   \* the buffers as they were when the calls were made
    proc,   \* per thread: the call (kernel, arguments), its position, its result
    frame,  \* per call frame: the locals i, vlen, sum and the vector registers
    ghost,  \* per thread, from index ghost.from on (0: from the call on): the
            \* cells read and written, the chunks processed, whether an int
            \* overflowed, and the sum kernel's registers as terms
    alloc,  \* the call of sse_utils_malloc: position, bytes, p, rc, result
    heap    \* the regions the allocator has handed out

vars == <<mem, mem0, proc, frame, ghost, alloc, heap>>

\* Mutant: the locals declared static, one frame for all calls.
FrameShared(t) == 1

\* Locals have automatic storage: every call has a frame of its own.
FrameOf(t) == t

UndefReg(w) == [j \in 1..w |-> Undef]

FreshFrame ==
    [i |-> Undef, vlen |-> Undef, sum |-> Undef,
     a_256 |-> UndefReg(8), b_256 |-> UndefReg(8), c_256 |-> UndefReg(8),
     a_128 |-> UndefReg(4), b_128 |-> UndefReg(4), c_128 |-> UndefReg(4),
     sum_128 |-> UndefReg(4)]

FreshGhost ==
    [from |-> 0, reads |-> {}, writes |-> {}, trace |-> <<>>, ub |-> FALSE,
     a_128 |-> <<>>, sum_128 |-> <<>>, sum |-> ZeroTerm]

IdleProc ==
    [kernel |-> "vadds", len |-> 0, c |-> NoBuf, a |-> NoBuf, b |-> NoBuf,
     pc |-> "idle", ret |-> Undef]

Call(k, l, cb, ab, bb) ==
    [kernel |-> k, len |-> l, c |-> cb, a |-> ab, b |-> bb, pc |-> "entry", ret |-> Undef]

IdleAlloc == [pc |-> "idle", bytes |-> 0, p |-> NULL, rc |-> 0, ret |-> NULL]

(***************************************************************************)
(* The elementwise kernels sse_utils_vadds, vaddd, vmuls and vmuld.  The  *)
(* four functions are the same text up to the element type, the chunk     *)
(* widths and the operation.                                               *)
(***************************************************************************)
Untouched == <<mem0, alloc, heap>>

\* vlen = len - 8; (len - 4 in the double kernels) and i = 0 of the first for.
EnterBinary(t) ==
    LET p == proc[t]
        f == FrameOf(t)
        v == WideBound(p.kernel, p.len)
    IN  /\ p.pc = "entry"
        /\ p.kernel \in Binary
        /\ \E r \in v :
              /\ frame' = [frame EXCEPT ![f].vlen = r.val, ![f].i = 0]
              /\ proc' = [proc EXCEPT ![t].pc = GoOn(r.goes, "wide")]
        /\ ghost' = [ghost EXCEPT ![t].ub = @ \/ Overflowed(v)]
        /\ UNCHANGED <<mem, Untouched>>

\* a_256 = _mm256_loadu_ps(&a[i]);
WideLoadA(t) ==
    LET p == proc[t]
        f == FrameOf(t)
        w == WWide(p.kernel)
    IN  /\ p.pc = "wide"
        /\ WideCond(frame[f].i, frame[f].vlen)
        /\ frame' = IF InChunk(mem, p.a, frame[f].i, w)
                    THEN [frame EXCEPT ![f].a_256 = LoadChunk(mem, p.a, frame[f].i, w)]
                    ELSE frame
        /\ ghost' = [ghost EXCEPT ![t].reads = @ \cup Cells(p.a, frame[f].i, w)]
        /\ proc' = [proc EXCEPT ![t].pc = GoOn(InChunk(mem, p.a, frame[f].i, w), "wide_b")]
        /\ UNCHANGED <<mem, Untouched>>

\* b_256 = _mm256_loadu_ps(&b[i]);
WideLoadB(t) ==
    LET p == proc[t]
        f == FrameOf(t)
        w == WWide(p.kernel)
    IN  /\ p.pc = "wide_b"
        /\ frame' = IF InChunk(mem, p.b, frame[f].i, w)
                    THEN [frame EXCEPT ![f].b_256 = LoadChunk(mem, p.b, frame[f].i, w)]
                    ELSE frame
        /\ ghost' = [ghost EXCEPT ![t].reads = @ \cup Cells(p.b, frame[f].i, w)]
        /\ proc' = [proc EXCEPT ![t].pc = GoOn(InChunk(mem, p.b, frame[f].i, w), "wide_op")]
        /\ UNCHANGED <<mem, Untouched>>

\* c_256 = _mm256_add_ps(a_256, b_256);
WideOp(t) ==
    LET p == proc[t]
        f == FrameOf(t)
    IN  /\ p.pc = "wide_op"
        /\ frame' = [frame EXCEPT ![f].c_256 =
                        LaneOp(OpOf(p.kernel), Prec(p.kernel), frame[f].a_256, frame[f].b_256)]
        /\ proc' = [proc EXCEPT ![t].pc = "wide_st"]
        /\ UNCHANGED <<mem, ghost, Untouched>>

\* _mm256_storeu_ps(&c[i], c_256); and the loop's i += 8
WideStore(t) ==
    LET p == proc[t]
        f == FrameOf(t)
        w == WWide(p.kernel)
        i == frame[f].i
    IN  /\ p.pc = "wide_st"
        /\ mem' = IF InChunk(mem, p.c, i, w) THEN StoreChunk(mem, p.c, i, frame[f].c_256) ELSE mem
        /\ \E r \in IntAdd(i, w) :
              /\ frame' = [frame EXCEPT ![f].i = r.val]
              /\ proc' = [proc EXCEPT ![t].pc = GoOn(InChunk(mem, p.c, i, w) /\ r.goes, "wide")]
        /\ ghost' = [ghost EXCEPT ![t].writes = @ \cup Cells(p.c, i, w),
                                  ![t].trace = IF ghost[t].ub THEN @ ELSE Append(@, <<"wide", i, w>>),
                                  ![t].ub = @ \/ Overflowed(IntAdd(i, w))]
        /\ UNCHANGED Untouched

\* The wide loop ends; vlen = len - 4; (len - 2 in the double kernels)
WideExit(t) ==
    LET p == proc[t]
        f == FrameOf(t)
        v == NarrowBound(p.kernel, p.len)
    IN  /\ p.pc = "wide"
        /\ ~WideCond(frame[f].i, frame[f].vlen)
        /\ \E r \in v :
              /\ frame' = [frame EXCEPT ![f].vlen = r.val]
              /\ proc' = [proc EXCEPT ![t].pc = GoOn(r.goes, "narrow")]
        /\ ghost' = [ghost EXCEPT ![t].ub = @ \/ Overflowed(v)]
        /\ UNCHANGED <<mem, Untouched>>

\* a_128 = _mm_loadu_ps(&a[i]);
NarrowLoadA(t) ==
    LET p == proc[t]
        f == FrameOf(t)
        w == WNarrow(p.kernel)
    IN  /\ p.pc = "narrow"
        /\ NarrowCond(frame[f].i, frame[f].vlen)
        /\ frame' = IF InChunk(mem, p.a, frame[f].i, w)
                    THEN [frame EXCEPT ![f].a_128 = LoadChunk(mem, p.a, frame[f].i, w)]
                    ELSE frame
        /\ ghost' = [ghost EXCEPT ![t].reads = @ \cup Cells(p.a, frame[f].i, w)]
        /\ proc' = [proc EXCEPT ![t].pc = GoOn(InChunk(mem, p.a, frame[f].i, w), "narrow_b")]
        /\ UNCHANGED <<mem, Untouched>>

\* b_128 = _mm_loadu_ps(&b[i]);
NarrowLoadB(t) ==
    LET p == proc[t]
        f == FrameOf(t)
        w == WNarrow(p.kernel)
    IN  /\ p.pc = "narrow_b"
        /\ frame' = IF InChunk(mem, p.b, frame[f].i, w)
                    THEN [frame EXCEPT ![f].b_128 = LoadChunk(mem, p.b, frame[f].i, w)]
                    ELSE frame
        /\ ghost' = [ghost EXCEPT ![t].reads = @ \cup Cells(p.b, frame[f].i, w)]
        /\ proc' = [proc EXCEPT ![t].pc = GoOn(InChunk(mem, p.b, frame[f].i, w), "narrow_op")]
        /\ UNCHANGED <<mem, Untouched>>

\* c_128 = _mm_add_ps(a_128, b_128);
NarrowOp(t) ==
    LET p == proc[t]
        f == FrameOf(t)
    IN  /\ p.pc = "narrow_op"
        /\ frame' = [frame EXCEPT ![f].c_128 =
                        LaneOp(OpOf(p.kernel), Prec(p.kernel), frame[f].a_128, frame[f].b_128)]
        /\ proc' = [proc EXCEPT ![t].pc = "narrow_st"]
        /\ UNCHANGED <<mem, ghost, Untouched>>

\* _mm_storeu_ps(&c[i], c_128); and the loop's i += 4
NarrowStore(t) ==
    LET p == proc[t]
        f == FrameOf(t)
        w == WNarrow(p.kernel)
        i == frame[f].i
    IN  /\ p.pc = "narrow_st"
        /\ mem' = IF InChunk(mem, p.c, i, w) THEN StoreChunk(mem, p.c, i, frame[f].c_128) ELSE mem
        /\ \E r \in IntAdd(i, w) :
              /\ frame' = [frame EXCEPT ![f].i = r.val]
              /\ proc' = [proc EXCEPT ![t].pc = GoOn(InChunk(mem, p.c, i, w) /\ r.goes, "narrow")]
        /\ ghost' = [ghost EXCEPT ![t].writes = @ \cup Cells(p.c, i, w),
                                  ![t].trace = IF ghost[t].ub THEN @ ELSE Append(@, <<"narrow", i, w>>),
                                  ![t].ub = @ \/ Overflowed(IntAdd(i, w))]
        /\ UNCHANGED Untouched

\* The narrow loop ends.
NarrowExit(t) ==
    LET p == proc[t]
        f == FrameOf(t)
    IN  /\ p.pc = "narrow"
        /\ ~NarrowCond(frame[f].i, frame[f].vlen)
        /\ proc' = [proc EXCEPT ![t].pc = "scalar"]
        /\ UNCHANGED <<mem, frame, ghost, Untouched>>

\* c[i] = a[i] + b[i]; and the loop's i++
Scalar(t) ==
    LET p == proc[t]
        f == FrameOf(t)
        i == frame[f].i
        ok == InBuf(mem, p.a, i) /\ InBuf(mem, p.b, i) /\ InBuf(mem, p.c, i)
    IN  /\ p.pc = "scalar"
        /\ ScalarCond(i, p.len)
        /\ mem' = IF ok
                  THEN ScalarStore(mem, OpOf(p.kernel), Prec(p.kernel), p.c, p.a, p.b, i)
                  ELSE mem
        /\ \E r \in IntAdd(i, 1) :
              /\ frame' = [frame EXCEPT ![f].i = r.val]
              /\ proc' = [proc EXCEPT ![t].pc = GoOn(ok /\ r.goes, "scalar")]
        /\ ghost' = [ghost EXCEPT ![t].reads = @ \cup {<<p.a, i>>, <<p.b, i>>},
                                  ![t].writes = @ \cup {<<p.c, i>>},
                                  ![t].trace = IF ghost[t].ub THEN @ ELSE Append(@, <<"scalar", i, 1>>),
                                  ![t].ub = @ \/ Overflowed(IntAdd(i, 1))]
        /\ UNCHANGED Untouched

\* The scalar loop ends and the kernel returns.
ScalarExit(t) ==
    LET p == proc[t]
        f == FrameOf(t)
    IN  /\ p.pc = "scalar"
        /\ ~ScalarCond(frame[f].i, p.len)
        /\ proc' = [proc EXCEPT ![t].pc = "done"]
        /\ UNCHANGED <<mem, frame, ghost, Untouched>>

(***************************************************************************)
(* The reduction kernels sse_utils_sums and sse_utils_sumd.  Beside the   *)
(* registers, the same additions are carried out on terms (ghost), which  *)
(* keep the order of the additions.                                        *)
(***************************************************************************)
\* vlen = len - 4;   (len - 2 in sse_utils_sumd): the outcomes.
SumBound(k, len) == IntAdd(len, 0 - WNarrow(k))
\* for (i = 0; i <= vlen; i += 4)   (i += 2 in sse_utils_sumd)
SumCond(i, vlen) == i <= vlen
\* for (; i < len; i++)
SumTailCond(i, len) == i < len

\* vlen = len - 4; sum_128 = _mm_setzero_ps(); and i = 0 of the for.
EnterSum(t) ==
    LET p == proc[t]
        f == FrameOf(t)
        v == SumBound(p.kernel, p.len)
    IN  /\ p.pc = "entry"
        /\ p.kernel \in Sums
        /\ \E r \in v :
              /\ frame' = [frame EXCEPT ![f].vlen = r.val, ![f].i = 0,
                                        ![f].sum_128 = SetZero(p.kernel, Prec(p.kernel))]
              /\ proc' = [proc EXCEPT ![t].pc = GoOn(r.goes, "sumloop")]
        /\ ghost' = [ghost EXCEPT ![t].ub = @ \/ Overflowed(v),
                                  ![t].sum_128 = SetZero(p.kernel, "sym")]
        /\ UNCHANGED <<mem, Untouched>>

\* a_128 = _mm_loadu_ps(&a[i]);
SumLoad(t) ==
    LET p == proc[t]
        f == FrameOf(t)
        w == WNarrow(p.kernel)
        i == frame[f].i
    IN  /\ p.pc = "sumloop"
        /\ SumCond(i, frame[f].vlen)
        /\ frame' = IF InChunk(mem, p.a, i, w)
                    THEN [frame EXCEPT ![f].a_128 = LoadChunk(mem, p.a, i, w)]
                    ELSE frame
        /\ ghost' = [ghost EXCEPT ![t].reads = @ \cup Cells(p.a, i, w),
                                  ![t].a_128 = IF InChunk(mem, p.a, i, w)
                                               THEN [j \in 1..w |-> ElemTerm(i + (j - 1))]
                                               ELSE @]
        /\ proc' = [proc EXCEPT ![t].pc = GoOn(InChunk(mem, p.a, i, w), "sum_add")]
        /\ UNCHANGED <<mem, Untouched>>

\* sum_128 = _mm_add_ps(sum_128, a_128); and the loop's i += 4
SumAdd(t) ==
    LET p == proc[t]
        f == FrameOf(t)
        w == WNarrow(p.kernel)
        i == frame[f].i
    IN  /\ p.pc = "sum_add"
        /\ \E r \in IntAdd(i, w) :
              /\ frame' = [frame EXCEPT
                             ![f].sum_128 = LaneOp("add", Prec(p.kernel), @, frame[f].a_128),
                             ![f].i = r.val]
              /\ proc' = [proc EXCEPT ![t].pc = GoOn(r.goes, "sumloop")]
        /\ ghost' = [ghost EXCEPT
                        ![t].sum_128 = IF ghost[t].ub THEN @
                                       ELSE LaneOp("add", "sym", @, ghost[t].a_128),
                        ![t].trace = IF ghost[t].ub THEN @ ELSE Append(@, <<"narrow", i, w>>),
                        ![t].ub = @ \/ Overflowed(IntAdd(i, w))]
        /\ UNCHANGED <<mem, Untouched>>

\* The chunk loop ends.
SumExit(t) ==
    LET p == proc[t]
        f == FrameOf(t)
    IN  /\ p.pc = "sumloop"
        /\ ~SumCond(frame[f].i, frame[f].vlen)
        /\ proc' = [proc EXCEPT ![t].pc = "hadd1"]
        /\ UNCHANGED <<mem, frame, ghost, Untouched>>

\* sum_128 = _mm_hadd_ps(sum_128, sum_128);   (the first; _mm_hadd_pd in sumd)
Hadd1(t) ==
    LET p == proc[t]
        f == FrameOf(t)
    IN  /\ p.pc = "hadd1"
        /\ frame' = [frame EXCEPT ![f].sum_128 = Hadd(p.kernel, Prec(p.kernel), @, @)]
        /\ ghost' = [ghost EXCEPT ![t].sum_128 = Hadd(p.kernel, "sym", @, @)]
        /\ proc' = [proc EXCEPT ![t].pc = IF Prec(p.kernel) = "s" THEN "hadd2" ELSE "store"]
        /\ UNCHANGED <<mem, Untouched>>

\* sum_128 = _mm_hadd_ps(sum_128, sum_128);   (the second, sse_utils_sums only)
Hadd2(t) ==
    LET p == proc[t]
        f == FrameOf(t)
    IN  /\ p.pc = "hadd2"
        /\ frame' = [frame EXCEPT ![f].sum_128 = Hadd(p.kernel, Prec(p.kernel), @, @)]
        /\ ghost' = [ghost EXCEPT ![t].sum_128 = Hadd(p.kernel, "sym", @, @)]
        /\ proc' = [proc EXCEPT ![t].pc = "store"]
        /\ UNCHANGED <<mem, Untouched>>

\* _mm_store_ss(&sum, sum_128);   (the lowest lane)
StoreSum(t) ==
    LET f == FrameOf(t)
    IN  /\ proc[t].pc = "store"
        /\ frame' = [frame EXCEPT ![f].sum = Lane(frame[f].sum_128, 1)]
        /\ ghost' = [ghost EXCEPT ![t].sum = ghost[t].sum_128[1]]
        /\ proc' = [proc EXCEPT ![t].pc = "sumtail"]
        /\ UNCHANGED <<mem, Untouched>>

\* sum += a[i]; and the loop's i++
SumTail(t) ==
    LET p == proc[t]
        f == FrameOf(t)
        i == frame[f].i
    IN  /\ p.pc = "sumtail"
        /\ SumTailCond(i, p.len)
        /\ \E r \in IntAdd(i, 1) :
              /\ frame' = IF InBuf(mem, p.a, i)
                          THEN [frame EXCEPT
                                  ![f].sum = Plus(Prec(p.kernel), @, LoadCell(mem, p.a, i)),
                                  ![f].i = r.val]
                          ELSE frame
              /\ proc' = [proc EXCEPT ![t].pc = GoOn(InBuf(mem, p.a, i) /\ r.goes, "sumtail")]
        /\ ghost' = [ghost EXCEPT
                        ![t].reads = @ \cup {<<p.a, i>>},
                        ![t].sum = IF ghost[t].ub THEN @ ELSE Plus("sym", @, ElemTerm(i)),
                        ![t].trace = IF ghost[t].ub THEN @ ELSE Append(@, <<"scalar", i, 1>>),
                        ![t].ub = @ \/ Overflowed(IntAdd(i, 1))]
        /\ UNCHANGED <<mem, Untouched>>

\* return sum;
SumReturn(t) ==
    LET p == proc[t]
        f == FrameOf(t)
    IN  /\ p.pc = "sumtail"
        /\ ~SumTailCond(frame[f].i, p.len)
        /\ proc' = [proc EXCEPT ![t].pc = "done", ![t].ret = frame[f].sum]
        /\ UNCHANGED <<mem, frame, ghost, Untouched>>

(***************************************************************************)
(* sse_utils_malloc.  posix_memalign belongs to the C library: it either  *)
(* hands out a fresh region at a multiple of the alignment and returns 0, *)
(* or leaves *memptr alone and returns an error number.                    *)
(***************************************************************************)
\* The byte counts the allocator is called with.
ByteSizes == {0 - 1} \cup {k * ALIGN + d : k \in 0..2, d \in {0, 1}}

\* What the uninitialized local p may hold before posix_memalign assigns it.
Indeterminate == {NULL, 8, ALIGN + 8}

HeapBytes == (HeapBlocks + 1) * ALIGN

\* The conversion of the int argument to posix_memalign's size_t parameter:
\* a negative count becomes a size beyond all memory.
SizeT(bytes) == IF bytes >= 0 THEN bytes ELSE HeapBytes + 1

Region(addr, size) == addr..(addr + Max2(size, 1) - 1)

\* The multiples of the alignment at which a region of this size is free.
FreeAt(hp, alignment, size) ==
    {a \in {k * alignment : k \in 1..HeapBlocks} :
        /\ a + Max2(size, 1) <= HeapBytes
        /\ \A r \in hp : Region(r.addr, r.size) \cap Region(a, size) = {}}

\* Mutant: p returned whatever posix_memalign reported.
MallocResultUnchecked(rc, p) == p

\* if (posix_memalign(&p, 128, bytes) == 0) return p; return NULL;
MallocResult(rc, p) == IF rc = 0 THEN p ELSE NULL

KernelsIdle == UNCHANGED <<mem, mem0, proc, frame, ghost>>

\* void *p;  on entry to sse_utils_malloc(bytes)
MallocCall ==
    /\ alloc.pc \in {"idle", "returned"}
    /\ \E n \in ByteSizes, g \in Indeterminate :
          alloc' = [pc |-> "memalign", bytes |-> n, p |-> g, rc |-> 0, ret |-> NULL]
    /\ UNCHANGED heap
    /\ KernelsIdle

\* posix_memalign(&p, 128, bytes) succeeds.
MemalignOk ==
    /\ alloc.pc = "memalign"
    /\ \E a \in FreeAt(heap, ALIGN, SizeT(alloc.bytes)) :
          /\ heap' = heap \cup {[addr |-> a, size |-> SizeT(alloc.bytes)]}
          /\ alloc' = [alloc EXCEPT !.pc = "test", !.rc = 0, !.p = a]
    /\ KernelsIdle

\* posix_memalign(&p, 128, 0) may also succeed with a null pointer.
MemalignOkNull ==
    /\ alloc.pc = "memalign"
    /\ SizeT(alloc.bytes) = 0
    /\ alloc' = [alloc EXCEPT !.pc = "test", !.rc = 0, !.p = NULL]
    /\ UNCHANGED heap
    /\ KernelsIdle

\* posix_memalign(&p, 128, bytes) fails with ENOMEM; p keeps what it held.
MemalignFail ==
    /\ alloc.pc = "memalign"
    /\ alloc' = [alloc EXCEPT !.pc = "test", !.rc = 12]
    /\ UNCHANGED heap
    /\ KernelsIdle

\* The test of the result and the return.
MallocReturn ==
    /\ alloc.pc = "test"
    /\ alloc' = [alloc EXCEPT !.pc = "returned", !.ret = MallocResult(alloc.rc, alloc.p)]
    /\ UNCHANGED heap
    /\ KernelsIdle

(***************************************************************************)
(* The callers' buffers.                                                   *)
(***************************************************************************)
\* Element k of the input filled after pattern n.  Pattern 4 makes float
\* additions round, pattern 5 makes float multiplications round.
Pat(n, k) ==
    CASE n = 1 -> k + 1
      [] n = 2 -> 5 - k
      [] n = 3 -> ((k * k) % 7) - 3
      [] n = 4 -> IF k = 0 THEN Pow2(MantBitsS) ELSE 1
      [] OTHER -> 4097 + 2 * k

\* The pairs of patterns for the buffers A and B.
PatPairs(k) ==
    IF OpOf(k) = "add"
    THEN {<<1, 2>>, <<3, 1>>, <<4, 3>>, <<4, 4>>, <<5, 5>>}
    ELSE {<<1, 2>>, <<3, 1>>, <<3, 3>>, <<5, 2>>, <<5, 5>>}

MkMem(cap, pa, pb) ==
    [buf \in Bufs |->
        [k \in 0..(cap - 1) |->
            CASE buf = "A" -> Pat(pa, k)
              [] buf = "B" -> Pat(pb, k)
              [] buf = "C1" -> 100 + k
              [] OTHER -> 200 + k]]

\* The (output, first input, second input) arguments of a single call: the
\* buffers distinct, or the output the same buffer as one or both inputs.
Layouts(k) ==
    IF k \in Binary
    THEN {<<"C1", "A", "B">>, <<"A", "A", "B">>, <<"B", "A", "B">>,
          <<"A", "A", "A">>, <<"C1", "A", "A">>}
    ELSE {<<NoBuf, "A", NoBuf>>, <<NoBuf, "B", NoBuf>>}

\* The arguments of the call of thread t when two calls run together: the
\* output is the thread's own buffer, the inputs are the shared buffers A and
\* B or the thread's own output.
ConcLayouts(t, k) ==
    IF k \in Binary
    THEN {<<OutBuf(t), "A", "B">>, <<OutBuf(t), OutBuf(t), "A">>}
    ELSE {<<NoBuf, "A", NoBuf>>, <<NoBuf, "B", NoBuf>>}

StartWith(m, calls) ==
    /\ mem = m
    /\ mem0 = m
    /\ proc = calls
    /\ frame = [f \in Threads |-> FreshFrame]
    /\ ghost = [t \in Threads |-> FreshGhost]
    /\ alloc = IdleAlloc
    /\ heap = {}

\* One call, len from 0 to MaxLen, every kernel, every layout.
Init ==
    \E k \in Kernels, l \in 0..MaxLen :
      \E pp \in PatPairs(k), lay \in Layouts(k) :
        StartWith(MkMem(l + Guard, pp[1], pp[2]),
                  [t \in Threads |->
                      IF t = 1 THEN Call(k, l, lay[1], lay[2], lay[3]) ELSE IdleProc])

\* The values of len explored from the call on: around 0, at the lower end
\* of the range of int, and the negated powers of two in between.
EdgeLens ==
    (0..NearEdge) \cup {0 - n : n \in 1..NearEdge}
        \cup {INT_MIN + n : n \in 0..NearEdge}
        \cup {0 - Pow2(e) : e \in 5..(IntBits - 2)}

\* The values of len at the upper end of the range of int.  A call with
\* such a len is explored from a state of its first loop on.
TopLens == {INT_MAX - n : n \in 0..NearEdge}

\* The chunk width of a kernel's first loop.
FirstW(k) == IF k \in Binary THEN WWide(k) ELSE WNarrow(k)

\* The value of i at which a call with a len of TopLens is taken up: the
\* last multiple of the chunk width that lies Lead or more before len.
PickUp(k, l) == FirstW(k) * ((l - Lead) \div FirstW(k))

\* The last cell of a buffer of l elements and Guard more.  The buffers
\* have no cell at index INT_MAX: an array of INT_MAX elements ends at
\* INT_MAX - 1, and the cells behind it end there too.
LastCell(l) ==
    IF l - 1 > (INT_MAX - 1) - Guard THEN INT_MAX - 1 ELSE (l - 1) + Guard

\* The cells from index lo on of buffers of l elements: inputs all 0,
\* outputs all 1.
ZeroMem(lo, l) ==
    [buf \in Bufs |-> [c \in lo..LastCell(l) |-> IF buf \in {"A", "B"} THEN 0 ELSE 1]]

ZeroReg(w) == [j \in 1..w |-> 0]

\* The locals at the head of the first loop with i = i0 > 0, after the
\* iterations before it ran on inputs that are all 0.
FrameAt(k, i0, v) ==
    IF k \in Binary
    THEN [FreshFrame EXCEPT !.i = i0, !.vlen = v,
                            !.a_256 = ZeroReg(WWide(k)), !.b_256 = ZeroReg(WWide(k)),
                            !.c_256 = ZeroReg(WWide(k))]
    ELSE [FreshFrame EXCEPT !.i = i0, !.vlen = v,
                            !.a_128 = ZeroReg(WNarrow(k)), !.sum_128 = ZeroReg(WNarrow(k))]

\* The record of a call that is followed from index i0 on.
GhostAt(k, i0) ==
    [FreshGhost EXCEPT !.from = i0,
                       !.a_128 = IF k \in Sums THEN SetZero(k, "sym") ELSE <<>>,
                       !.sum_128 = IF k \in Sums THEN SetZero(k, "sym") ELSE <<>>]

CallInt(k, l) ==
    Call(k, l, IF k \in Binary THEN "C1" ELSE NoBuf, "A", IF k \in Binary THEN "B" ELSE NoBuf)

\* One call with len at the ends of the range of int and around 0.
InitInt ==
    \/ \E k \in Kernels, l \in EdgeLens :
          StartWith(MkMem(Max2(l, 0) + Guard, 1, 2),
                    [t \in Threads |-> IF t = 1 THEN CallInt(k, l) ELSE IdleProc])
    \/ \E k \in Kernels, l \in TopLens :
          \E v \in (IF k \in Binary THEN WideBound(k, l) ELSE SumBound(k, l)) :
             /\ mem = ZeroMem(PickUp(k, l), l)
             /\ mem0 = mem
             /\ proc = [t \in Threads |->
                          IF t = 1
                          THEN [CallInt(k, l) EXCEPT
                                  !.pc = IF k \in Binary THEN "wide" ELSE "sumloop"]
                          ELSE IdleProc]
             /\ frame = [f \in Threads |->
                           IF f = FrameOf(1) THEN FrameAt(k, PickUp(k, l), v.val)
                           ELSE FreshFrame]
             /\ ghost = [t \in Threads |->
                           IF t = 1 THEN GhostAt(k, PickUp(k, l)) ELSE FreshGhost]
             /\ alloc = IdleAlloc
             /\ heap = {}

\* Two calls on two threads, no output shared.
InitConc ==
    \E k1 \in Kernels, k2 \in Kernels, l1 \in 0..MaxLenConc, l2 \in 0..MaxLenConc :
      \E lay1 \in ConcLayouts(1, k1), lay2 \in ConcLayouts(2, k2) :
        StartWith(MkMem(Max2(l1, l2) + Guard, 1, 3),
                  [t \in Threads |->
                      IF t = 1 THEN Call(k1, l1, lay1[1], lay1[2], lay1[3])
                      ELSE Call(k2, l2, lay2[1], lay2[2], lay2[3])])

\* No kernel call; the allocator is called again and again.
InitMalloc ==
    StartWith(MkMem(Guard, 1, 2), [t \in Threads |-> IdleProc])

Next ==
    \/ \E t \in Threads : EnterBinary(t)
    \/ \E t \in Threads : WideLoadA(t)
    \/ \E t \in Threads : WideLoadB(t)
    \/ \E t \in Threads : WideOp(t)
    \/ \E t \in Threads : WideStore(t)
    \/ \E t \in Threads : WideExit(t)
    \/ \E t \in Threads : NarrowLoadA(t)
    \/ \E t \in Threads : NarrowLoadB(t)
    \/ \E t \in Threads : NarrowOp(t)
    \/ \E t \in Threads : NarrowStore(t)
    \/ \E t \in Threads : NarrowExit(t)
    \/ \E t \in Threads : Scalar(t)
    \/ \E t \in Threads : ScalarExit(t)
    \/ \E t \in Threads : EnterSum(t)
    \/ \E t \in Threads : SumLoad(t)
    \/ \E t \in Threads : SumAdd(t)
    \/ \E t \in Threads : SumExit(t)
    \/ \E t \in Threads : Hadd1(t)
    \/ \E t \in Threads : Hadd2(t)
    \/ \E t \in Threads : StoreSum(t)
    \/ \E t \in Threads : SumTail(t)
    \/ \E t \in Threads : SumReturn(t)

NextMalloc ==
    \/ MallocCall
    \/ MemalignOk
    \/ MemalignOkNull
    \/ MemalignFail
    \/ MallocReturn

\* A single kernel call on valid arguments.
Spec == Init /\ [][Next]_vars

\* Two kernel calls interleaved.
SpecConc == InitConc /\ [][Next]_vars

\* A single kernel call with len at the ends of the range of int and around
\* 0 (InitInt).  A call that can take a step
\* does take it: the code is sequential and nothing suspends it.
SpecInt == InitInt /\ [][Next]_vars /\ WF_vars(Next)

\* The allocator.
SpecMalloc == InitMalloc /\ [][NextMalloc]_vars

(***************************************************************************)
(* What the claims speak of.                                               *)
(***************************************************************************)
Running(t) == proc[t].pc /= "idle"
Done(t) == proc[t].pc = "done"
Local(t) == frame[FrameOf(t)]

\* The cells of the array proper: the indices 0 .. len - 1 of a buffer.
Within(buf, len) == {<<buf, k>> : k \in 0..(len - 1)}

\* op(a[i], b[i]) on the inputs as they were before the call.
Elementwise(t, i) ==
    Arith(OpOf(proc[t].kernel), Prec(proc[t].kernel),
          mem0[proc[t].a][i], mem0[proc[t].b][i])

\* for (sum = 0, i = 0; i < len; i++) sum += a[i];
RECURSIVE NaiveSum(_, _, _)
NaiveSum(prec, a, n) == IF n <= 0 THEN 0 ELSE Plus(prec, NaiveSum(prec, a, n - 1), a[n - 1])

RECURSIVE SumAbs(_, _)
SumAbs(a, n) == IF n <= 0 THEN 0 ELSE SumAbs(a, n - 1) + Abs(a[n - 1])

\* Every addition of the first n elements, in whatever order, is exact.
ExactAdditions(prec, a, n) == prec = "d" \/ SumAbs(a, n) <= Pow2(MantBitsS)

--------------------------------------------------------------------------
\* C1: when an elementwise kernel whose output buffer is distinct from both
\* inputs has returned, c[i] = a[i] op b[i] for every i in [0, len), op
\* being + for vadds/vaddd and * for vmuls/vmuld.
C1_ElementwiseResult ==
    \A t \in Threads :
        (Done(t) /\ proc[t].kernel \in Binary /\ proc[t].c \notin {proc[t].a, proc[t].b})
        => \A i \in 0..(proc[t].len - 1) : mem[proc[t].c][i] = Elementwise(t, i)

\* A call of vmuls over 13 elements, so with a wide chunk, a narrow chunk
\* and a scalar element, into a distinct output, has returned.
C1_Witness ==
    /\ Done(1)
    /\ proc[1].kernel = "vmuls"
    /\ proc[1].len = 13
    /\ proc[1].c = "C1"
    /\ mem["C1"][12] = mem0["A"][12] * mem0["B"][12]
    /\ mem["C1"][12] /= mem0["C1"][12]

\* C2: when a sum kernel has returned, the result for len = 0 is exactly 0,
\* and whenever the additions are exact the result is that of the naive
\* left-to-right loop over a[0 .. len).
C2_SumResult ==
    \A t \in Threads :
        (Done(t) /\ proc[t].kernel \in Sums)
        => /\ proc[t].len = 0 => proc[t].ret = 0
           /\ ExactAdditions(Prec(proc[t].kernel), mem0[proc[t].a], proc[t].len)
              => proc[t].ret = NaiveSum(Prec(proc[t].kernel), mem0[proc[t].a], proc[t].len)

\* sums has returned 15 for a = 1, 2, 3, 4, 5.
C2_Witness ==
    /\ Done(1)
    /\ proc[1].kernel = "sums"
    /\ proc[1].len = 5
    /\ \A k \in 0..4 : mem0[proc[1].a][k] = k + 1
    /\ proc[1].ret = 15

\* C3: when an elementwise kernel whose output buffer is its first input,
\* its second input or both has returned, output[i] is op(a0[i], b0[i]) of
\* the inputs' values before the call for every i < len; and every chunk a
\* kernel loads holds the values the cells had before the call.
C3_Aliasing ==
    \A t \in Threads :
        (Running(t) /\ proc[t].kernel \in Binary /\ proc[t].c \in {proc[t].a, proc[t].b})
        => /\ Done(t) => \A i \in 0..(proc[t].len - 1) : mem[proc[t].c][i] = Elementwise(t, i)
           /\ proc[t].pc \in {"wide_b", "wide_op"}
              => Local(t).a_256 = LoadChunk(mem0, proc[t].a, Local(t).i, WWide(proc[t].kernel))
           /\ proc[t].pc = "wide_op"
              => Local(t).b_256 = LoadChunk(mem0, proc[t].b, Local(t).i, WWide(proc[t].kernel))
           /\ proc[t].pc \in {"narrow_b", "narrow_op"}
              => Local(t).a_128 = LoadChunk(mem0, proc[t].a, Local(t).i, WNarrow(proc[t].kernel))
           /\ proc[t].pc = "narrow_op"
              => Local(t).b_128 = LoadChunk(mem0, proc[t].b, Local(t).i, WNarrow(proc[t].kernel))

\* vaddd(b, a, b, 7) has returned: the output is the second input, and a
\* wide chunk, a narrow chunk and a scalar element were stored over it.
C3_Witness ==
    /\ Done(1)
    /\ proc[1].kernel = "vaddd"
    /\ proc[1].len = 7
    /\ proc[1].c = "B" /\ proc[1].a = "A" /\ proc[1].b = "B"
    /\ mem["B"][6] = mem0["A"][6] + mem0["B"][6]
    /\ mem["B"] /= mem0["B"]

\* C4: for len >= 0 every cell a kernel loads or stores has its index in
\* [0, len); the cells at and beyond len keep their value; a sum kernel
\* stores nothing; and for len = 0 nothing is loaded or stored at all.
C4_InBounds ==
    \A t \in Threads :
        (Running(t) /\ proc[t].len >= 0)
        => /\ ghost[t].reads \subseteq
                  Within(proc[t].a, proc[t].len) \cup Within(proc[t].b, proc[t].len)
           /\ ghost[t].writes \subseteq Within(proc[t].c, proc[t].len)
           /\ \A buf \in DOMAIN mem : \A k \in DOMAIN mem[buf] :
                  k >= proc[t].len => mem[buf][k] = mem0[buf][k]
           /\ proc[t].kernel \in Sums => ghost[t].writes = {} /\ mem = mem0
           /\ proc[t].len = 0 => ghost[t].reads = {} /\ ghost[t].writes = {} /\ mem = mem0

\* vadds over 11 elements has returned, having read and written exactly
\* the cells 0 .. 10; the cell after them is as it was.
C4_Witness ==
    /\ Done(1)
    /\ proc[1].kernel = "vadds"
    /\ proc[1].len = 11
    /\ proc[1].c = "C1"
    /\ ghost[1].writes = Within("C1", 11)
    /\ ghost[1].reads = Within("A", 11) \cup Within(proc[1].b, 11)
    /\ mem["C1"][11] = mem0["C1"][11]

--------------------------------------------------------------------------
\* The tiers as the specification words them: the chunk widths by precision.
SpecWide(k) == IF k \in {"vadds", "vmuls"} THEN 8 ELSE 4
SpecNarrow(k) == IF k \in {"vadds", "vmuls", "sums"} THEN 4 ELSE 2

\* The chunks in the order the tiers are to process them: wide chunks from 0
\* while at least a wide chunk remains, narrow chunks from there while at
\* least a narrow chunk remains, then the rest one element at a time.
TierPlan(k, len) ==
    LET ww == SpecWide(k)
        wn == SpecNarrow(k)
        q1 == len \div ww
        s1 == q1 * ww
        q2 == (len - s1) \div wn
        s2 == s1 + q2 * wn
    IN  [n \in 1..q1 |-> <<"wide", (n - 1) * ww, ww>>]
        \o [n \in 1..q2 |-> <<"narrow", s1 + (n - 1) * wn, wn>>]
        \o [n \in 1..(len - s2) |-> <<"scalar", s2 + n - 1, 1>>]

IsPrefix(s, r) == Len(s) <= Len(r) /\ \A n \in 1..Len(s) : s[n] = r[n]

\* How many of the chunks processed so far hold index idx.
TimesProcessed(t, idx) ==
    Cardinality({n \in DOMAIN ghost[t].trace :
                    idx \in ghost[t].trace[n][2]..(ghost[t].trace[n][2] + ghost[t].trace[n][3] - 1)})

\* C7: in an elementwise kernel with len >= 0 the chunks are stored in the
\* order wide, narrow, scalar at exactly the planned indices; no index is
\* processed twice; and on return every index of [0, len) was processed
\* exactly once, by one tier, and i = len.
C7_TierPartition ==
    \A t \in Threads :
        (Running(t) /\ proc[t].kernel \in Binary /\ proc[t].len >= 0)
        => /\ IsPrefix(ghost[t].trace, TierPlan(proc[t].kernel, proc[t].len))
           /\ \A idx \in 0..(proc[t].len - 1) : TimesProcessed(t, idx) <= 1
           /\ Done(t) =>
                /\ ghost[t].trace = TierPlan(proc[t].kernel, proc[t].len)
                /\ \A idx \in 0..(proc[t].len - 1) : TimesProcessed(t, idx) = 1
                /\ Local(t).i = proc[t].len

\* vadds over 13 elements has returned after a wide chunk at 0, a narrow
\* chunk at 8 and a scalar element at 12.
C7_Witness ==
    /\ Done(1)
    /\ proc[1].kernel = "vadds"
    /\ proc[1].len = 13
    /\ ghost[1].trace = <<<<"wide", 0, 8>>, <<"narrow", 8, 4>>, <<"scalar", 12, 1>>>>

--------------------------------------------------------------------------
\* The sum as the specification orders it, over the elements cell[0 .. len):
\* lane j of the accumulator after q chunks of w elements,
RECURSIVE LaneSum(_, _, _, _, _)
LaneSum(prec, cell, w, j, q) ==
    IF q = 0 THEN (IF prec = "sym" THEN ZeroTerm ELSE 0)
    ELSE Plus(prec, LaneSum(prec, cell, w, j, q - 1), cell[j + (q - 1) * w])

\* the lanes folded, (L0 + L1) + (L2 + L3) for 32-bit and L0 + L1 for 64-bit,
FoldedSum(k, prec, cell, q) ==
    IF SpecNarrow(k) = 4
    THEN Plus(prec, Plus(prec, LaneSum(prec, cell, 4, 0, q), LaneSum(prec, cell, 4, 1, q)),
                    Plus(prec, LaneSum(prec, cell, 4, 2, q), LaneSum(prec, cell, 4, 3, q)))
    ELSE Plus(prec, LaneSum(prec, cell, 2, 0, q), LaneSum(prec, cell, 2, 1, q))

\* and the remaining elements added one at a time up to index n - 1.
RECURSIVE OrderedSum(_, _, _, _, _)
OrderedSum(k, prec, cell, len, n) ==
    LET q == len \div SpecNarrow(k)
    IN  IF n <= q * SpecNarrow(k) THEN FoldedSum(k, prec, cell, q)
        ELSE Plus(prec, OrderedSum(k, prec, cell, len, n - 1), cell[n - 1])

Terms(len) == [i \in 0..(len - 1) |-> ElemTerm(i)]

\* C8: a sum kernel adds in the specified order.  After the chunk loop lane
\* j of the accumulator is ((0 + a[j]) + a[j+W]) + ... ; the value returned
\* is the fold (L0 + L1) + (L2 + L3), or L0 + L1 for doubles, plus the
\* remaining elements in increasing index order, as a term and as a number
\* in the kernel's precision; and no buffer element is written.
C8_SumOrder ==
    \A t \in Threads :
        (Running(t) /\ proc[t].kernel \in Sums /\ proc[t].len >= 0)
        => LET k == proc[t].kernel
               len == proc[t].len
               q == len \div SpecNarrow(k)
           IN  /\ mem = mem0
               /\ proc[t].pc = "hadd1" =>
                    /\ DOMAIN ghost[t].sum_128 = 1..SpecNarrow(k)
                    /\ \A j \in 1..SpecNarrow(k) :
                        /\ ghost[t].sum_128[j] =
                              LaneSum("sym", Terms(len), SpecNarrow(k), j - 1, q)
                        /\ Local(t).sum_128[j] =
                              LaneSum(Prec(k), mem0[proc[t].a], SpecNarrow(k), j - 1, q)
               /\ proc[t].pc = "sumtail" =>
                    ghost[t].sum = OrderedSum(k, "sym", Terms(len), len, Local(t).i)
               /\ Done(t) =>
                    /\ ghost[t].sum = OrderedSum(k, "sym", Terms(len), len, len)
                    /\ proc[t].ret = OrderedSum(k, Prec(k), mem0[proc[t].a], len, len)

\* sums has returned over 2^24, 1, 1, ..., 1 (10 elements): the chunked
\* order gives a float that the naive left-to-right loop does not give.
C8_Witness ==
    /\ Done(1)
    /\ proc[1].kernel = "sums"
    /\ proc[1].len = 10
    /\ mem0[proc[1].a][0] = Pow2(MantBitsS)
    /\ \A n \in 1..9 : mem0[proc[1].a][n] = 1
    /\ proc[1].ret = Pow2(MantBitsS) + 8
    /\ NaiveSum("s", mem0[proc[1].a], 10) = Pow2(MantBitsS)

--------------------------------------------------------------------------
\* No call's output buffer is the output or an input of the other call.
OutputsApart ==
    \A t \in Threads, u \in Threads :
        (t /= u /\ proc[t].kernel \in Binary)
        => proc[t].c \notin {proc[u].c, proc[u].a, proc[u].b}

\* What the call of thread t leaves in cell k of its output buffer when it
\* runs alone: the elementwise result below len, the old value from len on.
AloneOutput(t, k) == IF k < proc[t].len THEN Elementwise(t, k) ELSE mem0[proc[t].c][k]

\* C5: two calls whose steps interleave, no output shared: in every
\* interleaving a call that has returned has left in its output buffer, or
\* has returned as its sum, what it produces when run alone, and the shared
\* inputs are never changed.
C5_ConcurrentCalls ==
    OutputsApart =>
        /\ mem["A"] = mem0["A"] /\ mem["B"] = mem0["B"]
        /\ \A t \in Threads :
            Done(t) =>
                IF proc[t].kernel \in Binary
                THEN \A k \in DOMAIN mem[proc[t].c] : mem[proc[t].c][k] = AloneOutput(t, k)
                ELSE proc[t].ret =
                        OrderedSum(proc[t].kernel, Prec(proc[t].kernel),
                                   mem0[proc[t].a], proc[t].len, proc[t].len)

\* vaddd(c1, a, b, 3) has returned, after a narrow chunk and a scalar
\* element, while sumd(a, 4), reading the same input, is between its chunk
\* loop and its return.
C5_Witness ==
    /\ OutputsApart
    /\ Done(1) /\ proc[1].kernel = "vaddd" /\ proc[1].len = 3 /\ proc[1].a = "A"
    /\ proc[2].kernel = "sumd" /\ proc[2].len = 4 /\ proc[2].a = "A"
    /\ proc[2].pc = "hadd1"
    /\ ghost[2].reads = Within("A", 4)
    /\ ghost[1].writes = Within("C1", 3)

--------------------------------------------------------------------------
\* C6: sse_utils_malloc has two outcomes.  After a success of the aligned
\* allocation it returns that pointer, a multiple of 128 whose region holds
\* the bytes asked for; after a failure it returns NULL.  It never returns
\* a pointer that is neither NULL nor a multiple of 128.
C6_MallocOutcomes ==
    alloc.pc = "returned" =>
        /\ alloc.rc = 0 =>
              /\ alloc.ret = alloc.p
              /\ alloc.ret % ALIGN = 0
              /\ alloc.ret /= NULL =>
                    \E r \in heap : r.addr = alloc.ret /\ r.size >= alloc.bytes
        /\ alloc.rc /= 0 => alloc.ret = NULL
        /\ alloc.ret /= NULL => alloc.ret % ALIGN = 0

\* A call for 129 bytes has failed with a non-null misaligned value left in
\* p, and has returned NULL, after an earlier call had succeeded.
C6_Witness ==
    /\ alloc.pc = "returned"
    /\ alloc.bytes = ALIGN + 1
    /\ alloc.rc /= 0
    /\ alloc.p = ALIGN + 8
    /\ alloc.ret = NULL
    /\ heap /= {}

--------------------------------------------------------------------------
\* C9: for every len in [0, INT_MAX] no int operation of a kernel overflows:
\* the bounds len - W and every increment of i stay in the range of int and
\* i never exceeds len; and the kernel returns.
C9_NoIntOverflow ==
    /\ [](\A t \in Threads :
            (Running(t) /\ proc[t].len >= 0)
            => /\ ~ghost[t].ub
               /\ proc[t].pc /= "undefined"
               /\ proc[t].pc /= "entry"
                  => /\ 0 <= Local(t).i /\ Local(t).i <= proc[t].len
                     /\ INT_MIN <= Local(t).vlen /\ Local(t).vlen <= INT_MAX)
    /\ \A t \in Threads : (Running(t) /\ proc[t].len >= 0) ~> Done(t)

\* vadds has returned for len = INT_MAX with i = INT_MAX, its last step the
\* scalar one at index INT_MAX - 1.
C9_Witness ==
    /\ Done(1)
    /\ proc[1].kernel = "vadds"
    /\ proc[1].len = INT_MAX
    /\ Local(1).i = INT_MAX
    /\ Len(ghost[1].trace) > 0
    /\ ghost[1].trace[Len(ghost[1].trace)] = <<"scalar", INT_MAX - 1, 1>>

\* C10: for a negative len whose bound len - 8 does not overflow no loop
\* body of any tier runs: nothing is read or written, the buffers are
\* unchanged, and a sum kernel returns exactly 0.
C10_NegativeLenIsEmpty ==
    \A t \in Threads :
        (Running(t) /\ proc[t].len >= INT_MIN + 8 /\ proc[t].len <= 0 - 1)
        => /\ ghost[t].reads = {} /\ ghost[t].writes = {} /\ ghost[t].trace = <<>>
           /\ mem = mem0
           /\ ~ghost[t].ub
           /\ proc[t].pc \in {"entry", "wide", "narrow", "scalar",
                              "sumloop", "hadd1", "hadd2", "store", "sumtail", "done"}
           /\ (Done(t) /\ proc[t].kernel \in Sums) => proc[t].ret = 0

\* sums has returned 0 for len = INT_MIN + 8.
C10_Witness ==
    /\ Done(1)
    /\ proc[1].kernel = "sums"
    /\ proc[1].len = INT_MIN + 8
    /\ proc[1].ret = 0
====
